---- MODULE Spec2Model ----
(***************************************************************************)
(* Model of the Progress & Score Ledger of api/index.py: the handlers      *)
(* save_vas, get_previous_vas, login and complete, the schema resolver     *)
(* get_phase_to_column_mapping, and the experiment_logs table they use.    *)
(*                                                                         *)
(* The table is a sequence of rows; the id of a row is its position (ids   *)
(* are assigned by the store in increasing order and rows are never        *)
(* deleted).  A JSON number is represented in tenths (3 is 30, 3.7 is 37)  *)
(* so that Python's int() is modelled by what it does.                     *)
(***************************************************************************)
EXTENDS Integers, Sequences, FiniteSets, TLC

(* ------------------------------ bounds --------------------------------- *)
MaxRows == 2

MaxRequests == 4

\* Longest warm-up source table.
MaxPool == 4

\* The size of the warm-up sample: random.sample(data, min(len(data), 50)),
\* with the 50 scaled down so that pools on both sides of it occur.
SampleLimit == 2

(* --------------------------- program constants ------------------------- *)
NULL == -1

Unparsable == -2

Conditions == {"weak", "mid", "strong"}

phase_order == <<"pre", "warmup", "0-5", "5-10", "10-15">>

ValidPhases == {"pre", "warmup", "0-5", "5-10", "10-15"}

DefaultColumn(phase) ==
  CASE phase = "pre"    -> "vas_pre"
    [] phase = "warmup" -> "vas_warmup"
    [] phase = "0-5"    -> "vas_phase1"
    [] phase = "5-10"   -> "vas_phase2"
    [] phase = "10-15"  -> "vas_phase3"

\* The names get_phase_to_column_mapping tests, in the order of its if/elif
\* chains.  No chain exists for pre.
CandidateColumns(phase) ==
  CASE phase = "pre"    -> <<>>
    [] phase = "warmup" -> <<"vas_warmup", "vas_war">>
    [] phase = "0-5"    -> <<"vas_phase1", "vas_phase_0_5", "vas_pha1">>
    [] phase = "5-10"   -> <<"vas_phase2", "vas_phase_5_10", "vas_pha2">>
    [] phase = "10-15"  -> <<"vas_phase3", "vas_phase_10_15", "vas_pha3">>

(* ------------------------------ the table ----------------------------- *)
\* Physical score columns of the deployed table: the canonical convention,
\* and a table that uses alternate spellings (two of them for 0-5) and has
\* no warm-up column at all.
CanonicalSchema == {"vas_pre", "vas_warmup", "vas_phase1", "vas_phase2", "vas_phase3"}

AlternateSchema == {"vas_pre", "vas_phase_0_5", "vas_pha1", "vas_pha2", "vas_phase_10_15"}

Schemas == {CanonicalSchema, AlternateSchema}

\* Every score column name the resolver knows besides vas_pre, and the tables
\* that have vas_pre and any of them.
KnownColumns ==
  {"vas_warmup", "vas_war", "vas_phase1", "vas_phase_0_5", "vas_pha1",
   "vas_phase2", "vas_phase_5_10", "vas_pha2", "vas_phase3", "vas_phase_10_15",
   "vas_pha3"}

AnySchemas == {{"vas_pre"} \cup S : S \in SUBSET KnownColumns}

\* Store calls of a request that may raise.
StoreCalls == {"probe", "check", "locate", "write", "verify"}

\* The two request handlers that may run at once.
Workers == {1, 2}

\* supabase: whether the client was created.  columns: the score columns of
\* the table.  rows: the table.  last: the request served last by the
\* sequential specifications, and its response.  workers: the request each
\* concurrent handler is serving, where it stands, and what it holds.
\* nreq: the number of requests the concurrent handlers have taken.
\* resolved: the map the last direct call of get_phase_to_column_mapping
\* returned.
\* files: the source tables on disk.  manager: the global manager, its
\* data_store once it is built.  builds: how many times TimelineManager() was
\* constructed.  tl: where each handler stands in a timeline request.
\* reply: the timeline request answered last, with what get_posts returned.
VARIABLES supabase, columns, rows, last, workers, nreq, resolved,
          files, manager, builds, tl, reply

vars == <<supabase, columns, rows, last, workers, nreq, resolved,
          files, manager, builds, tl, reply>>

\* The variables of the ledger, and those of the content catalog.
ledger == <<supabase, columns, rows, last, workers, nreq, resolved>>

catalog == <<files, manager, builds, tl, reply>>

(* ------------------------------ helpers -------------------------------- *)
\* int(vas_score) on a JSON number held in tenths: truncation toward zero.
PyInt(v) == v \div 10

\* Keys of the row returned by select('*').limit(1): empty when no row exists.
ActualColumns(tbl, cols) == IF Len(tbl) > 0 THEN cols ELSE {}

\* Mutant: independent tests instead of a chain, the last name present wins.
FirstPresent_LastPresent(names, actual, default) ==
  LET present == {i \in 1..Len(names) : names[i] \in actual}
  IN  IF present = {} THEN default
      ELSE names[CHOOSE i \in present : \A j \in present : j <= i]

RECURSIVE FirstPresent(_, _, _)
FirstPresent(names, actual, default) ==
  IF names = <<>> THEN default
  ELSE IF Head(names) \in actual THEN Head(names)
  ELSE FirstPresent(Tail(names), actual, default)

get_phase_to_column_mapping(sb, tbl, cols, probeFails) ==
  IF ~sb THEN [ph \in ValidPhases |-> DefaultColumn(ph)]
  ELSE IF probeFails THEN [ph \in ValidPhases |-> DefaultColumn(ph)]
  ELSE LET actual_columns == ActualColumns(tbl, cols)
       IN  IF actual_columns = {} THEN [ph \in ValidPhases |-> DefaultColumn(ph)]
           ELSE [ph \in ValidPhases |->
                   FirstPresent(CandidateColumns(ph), actual_columns, DefaultColumn(ph))]

\* No direct call of the resolver has been made.
NoMapping ==
  [called |-> FALSE, probeFails |-> FALSE, phase_to_column |-> [ph \in ValidPhases |-> ""]]

\* A call of get_phase_to_column_mapping on its own; probeFails says whether
\* its query raises.
Resolve(probeFails) ==
  /\ resolved' = [called |-> TRUE, probeFails |-> probeFails,
                  phase_to_column |->
                    get_phase_to_column_mapping(supabase, rows, columns, probeFails)]
  /\ UNCHANGED <<supabase, columns, rows, last, workers, nreq, catalog>>

\* Mutant: the condition filter of the locate query is left out.
LocateLatest_AnyCondition(tbl, user_id, condition) ==
  LET ids == {i \in 1..Len(tbl) : tbl[i].participant_name = user_id}
  IN  IF ids = {} THEN <<>>
      ELSE LET m == CHOOSE i \in ids : \A j \in ids : j <= i
           IN  <<[id |-> m, status |-> tbl[m].status]>>

\* select('id,status').eq(participant_name).eq(filter_condition)
\*   .order('id', desc=True).limit(1): zero or one row.
LocateLatest(tbl, user_id, condition) ==
  LET ids == {i \in 1..Len(tbl) : /\ tbl[i].participant_name = user_id
                                  /\ tbl[i].filter_condition = condition}
  IN  IF ids = {} THEN <<>>
      ELSE LET m == CHOOSE i \in ids : \A j \in ids : j <= i
           IN  <<[id |-> m, status |-> tbl[m].status]>>

EmptyVas(cols) == [col \in cols |-> NULL]

\* Mutant: the inserted record carries the score in every score column.
StoreInsert_AllColumns(tbl, cols, user_id, condition, status, column_name, value) ==
  Append(tbl, [participant_name |-> user_id,
               filter_condition |-> condition,
               status           |-> status,
               vas              |-> [col \in cols |-> value]])

\* Mutant: the inserted record carries no score.
StoreInsert_NoScore(tbl, cols, user_id, condition, status, column_name, value) ==
  Append(tbl, [participant_name |-> user_id,
               filter_condition |-> condition,
               status           |-> status,
               vas              |-> EmptyVas(cols)])

\* insert(record): the store assigns the next id; unset columns are NULL.
StoreInsert(tbl, cols, user_id, condition, status, column_name, value) ==
  Append(tbl, [participant_name |-> user_id,
               filter_condition |-> condition,
               status           |-> status,
               vas              |-> IF column_name \in cols
                                    THEN [EmptyVas(cols) EXCEPT ![column_name] = value]
                                    ELSE EmptyVas(cols)])

\* Mutant: the update replaces the row's scores instead of merging into them.
StoreUpdate_Replace(tbl, record_id, column_name, value, newStatus) ==
  [tbl EXCEPT ![record_id] =
     [@ EXCEPT !.vas    = [[col \in DOMAIN @ |-> NULL] EXCEPT ![column_name] = value],
               !.status = IF newStatus = "" THEN @ ELSE newStatus]]

\* The update without its status key.
StoreUpdate_ScoreOnly(tbl, record_id, column_name, value, newStatus) ==
  [tbl EXCEPT ![record_id] =
     [@ EXCEPT !.vas = [@ EXCEPT ![column_name] = value]]]

\* Mutant: an update without a status key marks the record in_progress.
StoreUpdate_Reopens(tbl, record_id, column_name, value, newStatus) ==
  [tbl EXCEPT ![record_id] =
     [@ EXCEPT !.vas    = [@ EXCEPT ![column_name] = value],
               !.status = IF newStatus = "" THEN "in_progress" ELSE newStatus]]

\* update({column_name: value[, status]}).eq('id', record_id); newStatus is ""
\* when update_data has no status key.
StoreUpdate(tbl, record_id, column_name, value, newStatus) ==
  [tbl EXCEPT ![record_id] =
     [@ EXCEPT !.vas    = [@ EXCEPT ![column_name] = value],
               !.status = IF newStatus = "" THEN @ ELSE newStatus]]

Response(op, user_id, condition, phase, vas_score, fails, code, body, column, value, progress) ==
  [op |-> op, user_id |-> user_id, condition |-> condition, phase |-> phase,
   vas_score |-> vas_score, fails |-> fails, code |-> code, body |-> body,
   column |-> column, value |-> value, progress |-> progress,
   available_columns |-> {}]

NoResponse == Response("none", "", "", "", NULL, {}, 0, "", "", NULL, {})

(* ------------------------------ save_vas ------------------------------- *)
\* Mutant: the store is tested before the request is.
SaveVasValidate_StoreFirst(sb, user_id, condition, phase, vas_score) ==
  IF ~sb THEN "Database not configured"
  ELSE IF user_id = "" \/ condition \notin Conditions THEN "Invalid data"
  ELSE IF phase = "" \/ phase \notin ValidPhases THEN "Invalid phase"
  ELSE IF vas_score = NULL THEN "vas_score is required"
  ELSE "ok"

\* The checks made before the store is touched; "ok" when all pass.
SaveVasValidate(sb, user_id, condition, phase, vas_score) ==
  IF user_id = "" \/ condition \notin Conditions THEN "Invalid data"
  ELSE IF phase = "" \/ phase \notin ValidPhases THEN "Invalid phase"
  ELSE IF vas_score = NULL THEN "vas_score is required"
  ELSE IF ~sb THEN "Database not configured"
  ELSE "ok"

\* Mutant: the column existence check is left out.
ColumnNotFound_Unchecked(tbl, cols, column_name, checkFails) == FALSE

\* The column existence check: only made against a row that exists, and
\* skipped (the exception is swallowed) when its probe fails.
ColumnNotFound(tbl, cols, column_name, checkFails) ==
  /\ ~checkFails
  /\ ActualColumns(tbl, cols) # {}
  /\ column_name \notin ActualColumns(tbl, cols)

Outcome(tbl, code, body, column, value) ==
  [rows |-> tbl, code |-> code, body |-> body, column |-> column, value |-> value,
   available_columns |-> {}]

\* possible_columns: the columns of the sampled row with 'vas' in their name.
PossibleColumns(tbl, cols) == ActualColumns(tbl, cols)

\* Mutant: a pre submission always starts a new record.
SaveVasBranch_PreAlwaysInserts(existing, phase) ==
  IF phase = "pre" THEN "insert"
  ELSE IF existing # <<>>
  THEN IF existing[1].status # "completed" THEN "update" ELSE "completed"
  ELSE "missing"

\* Mutant: the status of the located record is not looked at.
SaveVasBranch_NoStatusCheck(existing, phase) ==
  IF existing # <<>> THEN "update"
  ELSE IF phase = "pre" THEN "insert" ELSE "missing"

\* Mutant: a record is started by any phase when none exists.
SaveVasBranch_AnyPhaseStarts(existing, phase) ==
  IF existing # <<>>
  THEN IF existing[1].status # "completed"
       THEN "update"
       ELSE IF phase = "pre" THEN "insert" ELSE "completed"
  ELSE "insert"

\* The branch on the located record: what save_vas does with it.
SaveVasBranch(existing, phase) ==
  IF existing # <<>>
  THEN IF existing[1].status # "completed"
       THEN "update"
       ELSE IF phase = "pre" THEN "insert" ELSE "completed"
  ELSE IF phase = "pre" THEN "insert" ELSE "missing"

\* The write that follows the branch.  existing is the result of the locate
\* query; tbl is the table at the time of the write.  int(vas_score) is
\* evaluated while the update or the record is built, and a column the
\* table does not have makes the store raise.
SaveVasWrite(tbl, cols, existing, user_id, condition, phase, column_name, vas_score, fails) ==
  LET branch      == SaveVasBranch(existing, phase)
      writeRaises == \/ vas_score = Unparsable
                     \/ "write" \in fails
                     \/ column_name \notin cols
  IN
  CASE branch = "update" ->
         IF writeRaises
         THEN Outcome(tbl, 500, "exception", "", NULL)
         ELSE LET updated == StoreUpdate(tbl, existing[1].id, column_name,
                                         PyInt(vas_score),
                                         IF phase = "10-15" THEN "completed" ELSE "")
              IN  IF "verify" \in fails
                  THEN Outcome(updated, 500, "exception", "", NULL)
                  ELSE Outcome(updated, 200, "Updated record",
                               column_name, PyInt(vas_score))
    [] branch = "insert" ->
         IF writeRaises
         THEN Outcome(tbl, 500, "exception", "", NULL)
         ELSE Outcome(StoreInsert(tbl, cols, user_id, condition, "in_progress",
                                  column_name, PyInt(vas_score)),
                      200, "Created new record", column_name, PyInt(vas_score))
    [] branch = "completed" ->
         Outcome(tbl, 400, "Previous experiment is completed", "", NULL)
    [] branch = "missing" ->
         Outcome(tbl, 400, "No existing record found", "", NULL)

\* The whole handler against one table state.
SaveVasOutcome(sb, tbl, cols, user_id, condition, phase, vas_score, fails) ==
  LET invalid == SaveVasValidate(sb, user_id, condition, phase, vas_score)
      column_name == get_phase_to_column_mapping(sb, tbl, cols, "probe" \in fails)[phase]
  IN
  IF invalid # "ok"
  THEN Outcome(tbl, IF invalid = "Database not configured" THEN 500 ELSE 400,
               invalid, "", NULL)
  ELSE IF ColumnNotFound(tbl, cols, column_name, "check" \in fails)
  THEN [Outcome(tbl, 400, "Column not found", column_name, NULL)
          EXCEPT !.available_columns = PossibleColumns(tbl, cols)]
  ELSE IF "locate" \in fails
  THEN Outcome(tbl, 500, "exception", "", NULL)
  ELSE SaveVasWrite(tbl, cols, LocateLatest(tbl, user_id, condition),
                    user_id, condition, phase, column_name, vas_score, fails)

save_vas(user_id, condition, phase, vas_score, fails) ==
  LET out == SaveVasOutcome(supabase, rows, columns, user_id, condition, phase,
                            vas_score, fails)
  IN  /\ Len(out.rows) <= MaxRows
      /\ rows' = out.rows
      /\ last' = [Response("save_vas", user_id, condition, phase, vas_score, fails,
                           out.code, out.body, out.column, out.value, {})
                    EXCEPT !.available_columns = out.available_columns]
      /\ UNCHANGED <<supabase, columns, workers, nreq, resolved, catalog>>

(* -------------------------- get_previous_vas --------------------------- *)
PhaseIndex(phase) == CHOOSE i \in 1..Len(phase_order) : phase_order[i] = phase

\* Mutant: the column of the current phase is read, not of the one before it.
PreviousPhase_Current(current_phase) == phase_order[PhaseIndex(current_phase)]

PreviousPhase(current_phase) == phase_order[PhaseIndex(current_phase) - 1]

\* The previous_score of the response, NULL for None.
PreviousScore(sb, tbl, cols, user_id, condition, current_phase, fails) ==
  IF current_phase \notin ValidPhases THEN NULL
  ELSE IF PhaseIndex(current_phase) = 1 THEN NULL
  ELSE LET previous_phase  == PreviousPhase(current_phase)
           previous_column == get_phase_to_column_mapping(sb, tbl, cols,
                                                          "probe" \in fails)[previous_phase]
           response == LocateLatest(tbl, user_id, condition)
       IN  IF ~sb THEN NULL
           ELSE IF "locate" \in fails \/ previous_column \notin cols THEN NULL
           ELSE IF response = <<>> THEN NULL
           ELSE tbl[response[1].id].vas[previous_column]

get_previous_vas(user_id, condition, current_phase, fails) ==
  /\ last' = IF user_id = "" \/ condition \notin Conditions
             THEN Response("get_previous_vas", user_id, condition, current_phase, NULL,
                           fails, 400, "Invalid data", "", NULL, {})
             ELSE Response("get_previous_vas", user_id, condition, current_phase, NULL,
                           fails, 200, "previous_score", "",
                           PreviousScore(supabase, rows, columns, user_id, condition,
                                         current_phase, fails), {})
  /\ UNCHANGED <<supabase, columns, rows, workers, nreq, resolved, catalog>>

(* -------------------------------- login -------------------------------- *)
\* Mutant: the completed records of every participant are selected.
CompletedRecords_AnyParticipant(tbl, user_id) ==
  SelectSeq(tbl, LAMBDA r : r.status = "completed")

\* select('filter_condition').eq(participant_name).eq(status, 'completed')
CompletedRecords(tbl, user_id) ==
  SelectSeq(tbl, LAMBDA r : r.participant_name = user_id /\ r.status = "completed")

\* The loop over response.data; progress is held as the set of the
\* conditions mapped to True.
RECURSIVE MarkProgress(_, _)
MarkProgress(data, progress) ==
  IF data = <<>> THEN progress
  ELSE MarkProgress(Tail(data),
                    IF Head(data).filter_condition \in Conditions
                    THEN progress \cup {Head(data).filter_condition}
                    ELSE progress)

\* Mutant: the records are read whether or not the query raised.
Progress_Unguarded(sb, tbl, user_id, fails) ==
  IF ~sb THEN {} ELSE MarkProgress(CompletedRecords(tbl, user_id), {})

Progress(sb, tbl, user_id, fails) ==
  IF ~sb \/ "locate" \in fails THEN {}
  ELSE MarkProgress(CompletedRecords(tbl, user_id), {})

login(user_id, fails) ==
  /\ last' = IF user_id = ""
             THEN Response("login", user_id, "", "", NULL, fails, 400,
                           "User ID required", "", NULL, {})
             ELSE Response("login", user_id, "", "", NULL, fails, 200, "ok", "", NULL,
                           Progress(supabase, rows, user_id, fails))
  /\ UNCHANGED <<supabase, columns, rows, workers, nreq, resolved, catalog>>

(* ------------------------------- complete ------------------------------ *)
\* Mutant: a completed record is inserted whatever the locate query returned.
CompleteWrite_AlwaysInserts(tbl, cols, existing, user_id, condition, fails) ==
  [rows |-> Append(tbl, [participant_name |-> user_id,
                         filter_condition |-> condition,
                         status           |-> "completed",
                         vas              |-> EmptyVas(cols)]),
   code |-> 200, body |-> "Created new record", column |-> "", value |-> NULL,
   available_columns |-> {}]

\* The branch on the located record, and the write.
CompleteWrite(tbl, cols, existing, user_id, condition, fails) ==
  IF existing # <<>>
  THEN IF existing[1].status # "completed"
       THEN IF "write" \in fails
            THEN Outcome(tbl, 500, "exception", "", NULL)
            ELSE Outcome([tbl EXCEPT ![existing[1].id].status = "completed"],
                         200, "Updated record", "", NULL)
       ELSE Outcome(tbl, 200, "Already completed", "", NULL)
  ELSE IF "write" \in fails
       THEN Outcome(tbl, 500, "exception", "", NULL)
       ELSE Outcome(Append(tbl, [participant_name |-> user_id,
                                 filter_condition |-> condition,
                                 status           |-> "completed",
                                 vas              |-> EmptyVas(cols)]),
                    200, "Created new record", "", NULL)

CompleteOutcome(sb, tbl, cols, user_id, condition, fails) ==
  IF user_id = "" \/ condition \notin Conditions
  THEN Outcome(tbl, 400, "Invalid data", "", NULL)
  ELSE IF ~sb THEN Outcome(tbl, 200, "ok", "", NULL)
  ELSE IF "locate" \in fails THEN Outcome(tbl, 500, "exception", "", NULL)
  ELSE CompleteWrite(tbl, cols, LocateLatest(tbl, user_id, condition),
                     user_id, condition, fails)

complete(user_id, condition, fails) ==
  LET out == CompleteOutcome(supabase, rows, columns, user_id, condition, fails)
  IN  /\ Len(out.rows) <= MaxRows
      /\ rows' = out.rows
      /\ last' = Response("complete", user_id, condition, "", NULL, fails,
                          out.code, out.body, "", NULL, {})
      /\ UNCHANGED <<supabase, columns, workers, nreq, resolved, catalog>>

(* ------------------------ concurrent handlers -------------------------- *)
\* A handler between two store calls: the request, the column it resolved,
\* the result of its locate query, and its response once it is done.
Handler(pc, op, user_id, condition, phase, vas_score, column_name, existing, code, body, value) ==
  [pc |-> pc, op |-> op, user_id |-> user_id, condition |-> condition,
   phase |-> phase, vas_score |-> vas_score, column_name |-> column_name,
   existing |-> existing, code |-> code, body |-> body, value |-> value]

Idle == Handler("idle", "none", "", "", "", NULL, "", <<>>, 0, "", NULL)

Free(w) == workers[w].pc \in {"idle", "done"}

\* save_vas up to its first store call: validation, then the schema probe of
\* get_phase_to_column_mapping.
SaveVasBegin(w, user_id, condition, phase, vas_score) ==
  LET invalid == SaveVasValidate(supabase, user_id, condition, phase, vas_score)
  IN  /\ Free(w)
      /\ nreq < MaxRequests
      /\ nreq' = nreq + 1
      /\ workers' = [workers EXCEPT ![w] =
            IF invalid # "ok"
            THEN Handler("done", "save_vas", user_id, condition, phase, vas_score, "",
                         <<>>, IF invalid = "Database not configured" THEN 500 ELSE 400,
                         invalid, NULL)
            ELSE Handler("mapped", "save_vas", user_id, condition, phase, vas_score,
                         get_phase_to_column_mapping(supabase, rows, columns, FALSE)[phase],
                         <<>>, 0, "", NULL)]
      /\ UNCHANGED <<supabase, columns, rows, last, resolved, catalog>>

\* The second probe: the column existence check.
SaveVasCheck(w) ==
  /\ workers[w].pc = "mapped"
  /\ workers' = [workers EXCEPT ![w] =
        IF ColumnNotFound(rows, columns, workers[w].column_name, FALSE)
        THEN [@ EXCEPT !.pc = "done", !.code = 400, !.body = "Column not found"]
        ELSE [@ EXCEPT !.pc = "checked"]]
  /\ UNCHANGED <<supabase, columns, rows, last, nreq, resolved, catalog>>

\* The locate query; the sequence errors are answered without another call.
SaveVasLocate(w) ==
  LET existing == LocateLatest(rows, workers[w].user_id, workers[w].condition)
      branch   == SaveVasBranch(existing, workers[w].phase)
  IN  /\ workers[w].pc = "checked"
      /\ workers' = [workers EXCEPT ![w] =
            CASE branch = "completed" ->
                   [@ EXCEPT !.pc = "done", !.existing = existing, !.code = 400,
                             !.body = "Previous experiment is completed"]
              [] branch = "missing" ->
                   [@ EXCEPT !.pc = "done", !.existing = existing, !.code = 400,
                             !.body = "No existing record found"]
              [] OTHER ->
                   [@ EXCEPT !.pc = "located", !.existing = existing]]
      /\ UNCHANGED <<supabase, columns, rows, last, nreq, resolved, catalog>>

\* The write acting on a record located again at the moment of the write.
ExistingAtWrite_Fresh(w) ==
  LocateLatest(rows, workers[w].user_id, workers[w].condition)

\* The record the write acts on: the one the handler's own query returned.
ExistingAtWrite(w) == workers[w].existing

\* The update or insert, on the table as it is now.
SaveVasStore(w) ==
  LET out == SaveVasWrite(rows, columns, ExistingAtWrite(w), workers[w].user_id,
                          workers[w].condition, workers[w].phase,
                          workers[w].column_name, workers[w].vas_score, {})
  IN  /\ workers[w].pc = "located"
      /\ workers[w].op = "save_vas"
      /\ Len(out.rows) <= MaxRows
      /\ rows' = out.rows
      /\ workers' = [workers EXCEPT ![w] =
            [@ EXCEPT !.pc = "done", !.code = out.code, !.body = out.body,
                      !.value = out.value]]
      /\ UNCHANGED <<supabase, columns, last, nreq, resolved, catalog>>

\* complete up to and including its locate query.
CompleteLocate(w, user_id, condition) ==
  LET existing == LocateLatest(rows, user_id, condition)
  IN  /\ Free(w)
      /\ nreq < MaxRequests
      /\ nreq' = nreq + 1
      /\ workers' = [workers EXCEPT ![w] =
            IF user_id = "" \/ condition \notin Conditions
            THEN Handler("done", "complete", user_id, condition, "", NULL, "", <<>>,
                         400, "Invalid data", NULL)
            ELSE IF ~supabase
            THEN Handler("done", "complete", user_id, condition, "", NULL, "", <<>>,
                         200, "ok", NULL)
            ELSE IF existing # <<>> /\ existing[1].status = "completed"
            THEN Handler("done", "complete", user_id, condition, "", NULL, "", existing,
                         200, "Already completed", NULL)
            ELSE Handler("located", "complete", user_id, condition, "", NULL, "",
                         existing, 0, "", NULL)]
      /\ UNCHANGED <<supabase, columns, rows, last, resolved, catalog>>

\* The status update or the insert of complete.
CompleteStore(w) ==
  LET out == CompleteWrite(rows, columns, workers[w].existing, workers[w].user_id,
                           workers[w].condition, {})
  IN  /\ workers[w].pc = "located"
      /\ workers[w].op = "complete"
      /\ Len(out.rows) <= MaxRows
      /\ rows' = out.rows
      /\ workers' = [workers EXCEPT ![w] =
            [@ EXCEPT !.pc = "done", !.code = out.code, !.body = out.body]]
      /\ UNCHANGED <<supabase, columns, last, nreq, resolved, catalog>>

(* --------------------------- TimelineManager --------------------------- *)
Windows == {"0-5", "5-10", "10-15"}

\* A source table: whether its file is found, and the cells of its text
\* column in file order; "" is an empty cell.
File(exists, cells) == [exists |-> exists, cells |-> cells]

\* The text column of the table of a (condition, window): the condition, an
\* empty cell, the window.
WindowCells(condition, phase) == <<condition, "", phase>>

WarmupCell(i) ==
  CASE i % 5 = 1 -> "user: calm"
    [] i % 5 = 2 -> ""
    [] i % 5 = 3 -> "calm"
    [] i % 5 = 4 -> "calm"
    [] OTHER     -> "- calm"

\* The data directory: the warm-up table and the nine window tables, those
\* in missing not being found.
FileSystem(warmup, missing) ==
  [k \in {"warmup"} \cup Conditions |->
     IF k = "warmup" THEN warmup
     ELSE [ph \in Windows |-> File(<<k, ph>> \notin missing, WindowCells(k, ph))]]

\* Mutant: rows with an empty text cell are kept.
load_csv_KeepsEmpty(file) ==
  IF ~file.exists THEN <<>>
  ELSE [i \in 1..Len(file.cells) |-> [text |-> file.cells[i]]]

\* load_csv: [] when the file is not found; otherwise the rows whose text is
\* not null, in file order, as {'text': ...} records.
load_csv(file) ==
  IF ~file.exists THEN <<>>
  ELSE LET kept == SelectSeq(file.cells, LAMBDA c : c # "")
       IN  [i \in 1..Len(kept) |-> [text |-> kept[i]]]

\* __init__ and load_all_data: the data_store of a new TimelineManager.
load_all_data(fs) ==
  [k \in {"warmup"} \cup Conditions |->
     IF k = "warmup" THEN load_csv(fs[k])
     ELSE [ph \in Windows |-> load_csv(fs[k][ph])]]

\* manager = None.
NoManager ==
  [built |-> FALSE,
   data_store |-> [k \in {"warmup"} \cup Conditions |->
                     IF k = "warmup" THEN <<>> ELSE [ph \in Windows |-> <<>>]]]

Min(a, b) == IF a <= b THEN a ELSE b

\* random.sample(data, k): every sequence of k distinct positions of data.
Samples(data, k) ==
  {[i \in 1..k |-> data[idx[i]]] :
     idx \in {f \in [1..k -> 1..Len(data)] : \A i, j \in 1..k : f[i] = f[j] => i = j}}

\* Mutant: the condition is looked up before the phase is.
get_posts_ConditionFirst(data_store, condition, phase) ==
  IF condition \notin Conditions THEN {<<>>}
  ELSE IF phase = "warmup"
  THEN IF data_store["warmup"] # <<>>
       THEN Samples(data_store["warmup"], Min(Len(data_store["warmup"]), SampleLimit))
       ELSE {<<>>}
  ELSE IF phase \in Windows THEN {data_store[condition][phase]} ELSE {<<>>}

\* Mutant: the window of the first five minutes is returned for every window.
get_posts_FirstWindow(data_store, condition, phase) ==
  IF phase = "warmup"
  THEN IF data_store["warmup"] # <<>>
       THEN Samples(data_store["warmup"], Min(Len(data_store["warmup"]), SampleLimit))
       ELSE {<<>>}
  ELSE IF condition \in Conditions /\ phase \in Windows
  THEN {data_store[condition]["0-5"]} ELSE {<<>>}

\* Mutant: an unknown condition or phase is looked up without a test.
get_posts_NoMembershipTest(data_store, condition, phase) ==
  IF phase = "warmup"
  THEN IF data_store["warmup"] # <<>>
       THEN Samples(data_store["warmup"], Min(Len(data_store["warmup"]), SampleLimit))
       ELSE {<<>>}
  ELSE IF condition \in Conditions /\ phase \in Windows
  THEN {data_store[condition][phase]} ELSE {<<[text |-> "KeyError"]>>}

\* get_posts: the set of the sequences a call may return.  For the key
\* 'warmup' the entry is a list of records, which holds no phase name.
get_posts(data_store, condition, phase) ==
  IF phase = "warmup"
  THEN IF data_store["warmup"] # <<>>
       THEN Samples(data_store["warmup"], Min(Len(data_store["warmup"]), SampleLimit))
       ELSE {<<>>}
  ELSE IF /\ condition \in DOMAIN data_store
          /\ condition # "warmup"
          /\ phase \in DOMAIN data_store[condition]
  THEN {data_store[condition][phase]}
  ELSE {<<>>}

\* clean_text_line on the cells of the model: a leading "name:" or list
\* marker is removed, and a text of digits, dots and dashes is removed whole.
clean_text_line(text) ==
  CASE text \in {"user: calm", "- calm"} -> "calm"
    [] text \in {"0-5", "5-10", "10-15"} -> ""
    [] OTHER -> text

\* The timeline get_timeline builds from the posts.
Timeline(posts, condition) ==
  LET shown == SelectSeq(posts, LAMBDA p : p.text # "")
  IN  [i \in 1..Len(shown) |->
         [text   |-> clean_text_line(shown[i].text),
          source |-> IF condition = "" THEN "warmup" ELSE condition,
          stress |-> 0]]

Reply(condition, phase, code, posts, timeline) ==
  [condition |-> condition, phase |-> phase, code |-> code, posts |-> posts,
   timeline |-> timeline]

NoReply == Reply("", "", 0, <<>>, <<>>)

\* get_timeline without a phase: 400 before get_manager is called.
PhaseRequired(w, condition) ==
  /\ tl[w] = "idle"
  /\ reply' = Reply(condition, "", 400, <<>>, <<>>)
  /\ UNCHANGED <<files, manager, builds, tl, ledger>>

\* get_manager: the test of the global.
ManagerTest(w) ==
  /\ tl[w] = "idle"
  /\ tl' = [tl EXCEPT ![w] = IF manager.built THEN "have" ELSE "build"]
  /\ UNCHANGED <<files, manager, builds, reply, ledger>>

\* get_manager: manager = TimelineManager(), by a handler that saw None.
ManagerBuild(w) ==
  /\ tl[w] = "build"
  /\ manager' = [built |-> TRUE, data_store |-> load_all_data(files)]
  /\ builds' = builds + 1
  /\ tl' = [tl EXCEPT ![w] = "have"]
  /\ UNCHANGED <<files, reply, ledger>>

\* The rest of get_timeline: get_posts on the manager, and the response.
TimelineServe(w, condition, phase) ==
  /\ tl[w] = "have"
  /\ phase # ""
  /\ \E posts \in get_posts(manager.data_store, condition, phase) :
       reply' = Reply(condition, phase, 200, posts, Timeline(posts, condition))
  /\ tl' = [tl EXCEPT ![w] = "idle"]
  /\ UNCHANGED <<files, manager, builds, ledger>>

(* ---------------------------- specification ---------------------------- *)
\* No request served yet, no manager built, and no data directory.
InitCatalogIdle ==
  /\ files = FileSystem(File(FALSE, <<>>), {"warmup"} \X Windows \cup Conditions \X Windows)
  /\ manager = NoManager
  /\ builds = 0
  /\ tl = [w \in Workers |-> "idle"]
  /\ reply = NoReply

InitLedgerIdle ==
  /\ rows = <<>>
  /\ last = NoResponse
  /\ workers = [w \in Workers |-> Idle]
  /\ nreq = 0
  /\ resolved = NoMapping

Init ==
  /\ supabase \in BOOLEAN
  /\ columns \in Schemas
  /\ InitLedgerIdle
  /\ InitCatalogIdle

\* Scores of the requests: 3, 3.7, and a value int() cannot convert.
ReqScores == {30, 37, Unparsable}

\* One participant working through one condition, every phase in any order;
\* a second condition is only ever completed.
Next ==
  \/ \E phase \in ValidPhases, vas_score \in ReqScores :
        save_vas("p1", "weak", phase, vas_score, {})
  \/ \E condition \in {"weak", "mid"}, phase \in ValidPhases :
        get_previous_vas("p1", condition, phase, {})
  \/ login("p1", {})
  \/ \E condition \in {"weak", "mid"} : complete("p1", condition, {})

Spec == Init /\ [][Next]_vars

\* Two participants and all three conditions, first and last phase only.
NextPairs ==
  \/ \E user_id \in {"p1", "p2"}, condition \in Conditions, phase \in {"pre", "10-15"} :
        save_vas(user_id, condition, phase, 30, {})
  \/ \E user_id \in {"p1", "p2"} : login(user_id, {})
  \/ \E user_id \in {"p1", "p2"}, condition \in Conditions :
        complete(user_id, condition, {})

SpecPairs == Init /\ [][NextPairs]_vars

\* Two handlers serving requests of one pair at once, each store call a step.
NextConc ==
  \/ \E w \in Workers, phase \in {"pre", "warmup", "10-15"}, vas_score \in {30, 70} :
        SaveVasBegin(w, "p1", "weak", phase, vas_score)
  \/ \E w \in Workers : SaveVasCheck(w)
  \/ \E w \in Workers : SaveVasLocate(w)
  \/ \E w \in Workers : SaveVasStore(w)
  \/ \E w \in Workers : CompleteLocate(w, "p1", "weak")
  \/ \E w \in Workers : CompleteStore(w)

SpecConc == Init /\ [][NextConc]_vars

\* The store calls that raise during one request: none, the schema probe,
\* both probes, the locate query, the write, the read after the write, all.
FaultSets ==
  {{}, {"probe"}, {"probe", "check"}, {"locate"}, {"write"}, {"verify"}, StoreCalls}

\* One participant, valid and invalid requests, store calls that raise.
NextFaults ==
  \/ \E condition \in {"weak", "other"}, phase \in {"pre", "10-15", "other"},
        vas_score \in {30, NULL}, fails \in FaultSets :
        save_vas("p1", condition, phase, vas_score, fails)
  \/ \E current_phase \in {"pre", "warmup", "other"}, fails \in FaultSets :
        get_previous_vas("p1", "weak", current_phase, fails)
  \/ \E fails \in FaultSets : login("p1", fails)
  \/ \E condition \in {"weak", "other"}, fails \in FaultSets :
        complete("p1", condition, fails)

SpecFaults == Init /\ [][NextFaults]_vars

\* The resolver called on its own against any table that has vas_pre, before
\* and after the table gets its first row.
InitResolver ==
  /\ supabase \in BOOLEAN
  /\ columns \in AnySchemas
  /\ InitLedgerIdle
  /\ InitCatalogIdle

NextResolver ==
  \/ \E probeFails \in BOOLEAN : Resolve(probeFails)
  \/ save_vas("p1", "weak", "pre", 30, {})

SpecResolver == InitResolver /\ [][NextResolver]_vars

\* The data directories: a warm-up table of any length up to MaxPool, or
\* none, with every window table, all but one, all but those of a condition,
\* or none.
MissingTables ==
  {{}, {<<"weak", "5-10">>}, {"mid"} \X Windows, Conditions \X Windows}

FileSystems ==
  {FileSystem(warmup, missing) :
     warmup \in {File(FALSE, <<>>)} \cup
                {File(TRUE, [i \in 1..n |-> WarmupCell(i)]) : n \in 0..MaxPool},
     missing \in MissingTables}

\* Conditions and phases of the timeline requests; "" is an absent argument.
ReqConditions == {"weak", "mid", "strong", "warmup", "other", ""}

ReqPhases == {"warmup", "0-5", "5-10", "10-15", "pre"}

InitCatalog ==
  /\ supabase = FALSE
  /\ columns = CanonicalSchema
  /\ InitLedgerIdle
  /\ files \in FileSystems
  /\ manager = NoManager
  /\ builds = 0
  /\ tl = [w \in Workers |-> "idle"]
  /\ reply = NoReply

\* Two handlers serving timeline requests at once.
NextCatalog ==
  \/ \E w \in Workers, condition \in ReqConditions : PhaseRequired(w, condition)
  \/ \E w \in Workers : ManagerTest(w)
  \/ \E w \in Workers : ManagerBuild(w)
  \/ \E w \in Workers, condition \in ReqConditions, phase \in ReqPhases :
        TimelineServe(w, condition, phase)

SpecCatalog == InitCatalog /\ [][NextCatalog]_vars

(* ======================================================================= *)
(* Properties                                                              *)
(* ======================================================================= *)
\* Ids of the records of a (participant, condition) pair.
RecordsOf(tbl, user_id, condition) ==
  {i \in 1..Len(tbl) : /\ tbl[i].participant_name = user_id
                        /\ tbl[i].filter_condition = condition}

HasRecord(tbl, user_id, condition) == RecordsOf(tbl, user_id, condition) # {}

\* The record of the pair with the highest id (the pair has one).
NewestId(tbl, user_id, condition) ==
  CHOOSE i \in RecordsOf(tbl, user_id, condition) :
    \A j \in RecordsOf(tbl, user_id, condition) : j <= i

NewestCompleted(tbl, user_id, condition) ==
  /\ HasRecord(tbl, user_id, condition)
  /\ tbl[NewestId(tbl, user_id, condition)].status = "completed"

NewestOpen(tbl, user_id, condition) ==
  /\ HasRecord(tbl, user_id, condition)
  /\ tbl[NewestId(tbl, user_id, condition)].status # "completed"

\* The physical field a phase resolves to against the table tbl.
FieldOf(tbl, phase) == get_phase_to_column_mapping(TRUE, tbl, columns, FALSE)[phase]

\* The request of a step is a save_vas request that passes validation, with a
\* score int() converts, against a configured store whose calls succeed, and
\* the field the phase resolves to is not missing from a row of the table.
ServedSaveVas(req, tbl) ==
  /\ req.op = "save_vas"
  /\ req.user_id # "" /\ req.condition \in Conditions /\ req.phase \in ValidPhases
  /\ req.vas_score \notin {NULL, Unparsable}
  /\ supabase /\ req.fails = {}
  /\ (Len(tbl) = 0 \/ FieldOf(tbl, req.phase) \in columns)

\* C1: under atomic save_vas and complete operations from an empty ledger,
\* every (participant, condition) pair has at most one record whose status
\* is not completed.
C1_AtMostOneOpenRecord ==
  \A user_id \in {"p1", "p2"}, condition \in Conditions :
    Cardinality({i \in RecordsOf(rows, user_id, condition) :
                   rows[i].status # "completed"}) <= 1

\* A pair with a completed record and a later record still in progress.
C1_Witness ==
  \E i, j \in 1..Len(rows) :
    /\ i < j
    /\ rows[i].participant_name = rows[j].participant_name
    /\ rows[i].filter_condition = rows[j].filter_condition
    /\ rows[i].status = "completed"
    /\ rows[j].status = "in_progress"
    /\ last.op = "save_vas"

\* C2: a completed record is never changed by a later sequential save_vas or
\* complete, and a served pre submission for a pair whose newest record is
\* completed appends a new in_progress record and leaves every earlier row
\* as it was.
C2_CompletedRecordFrozen ==
  [][ /\ \A i \in 1..Len(rows) :
           rows[i].status = "completed" => (i <= Len(rows') /\ rows'[i] = rows[i])
      /\ ( /\ ServedSaveVas(last', rows)
           /\ last'.phase = "pre"
           /\ NewestCompleted(rows, last'.user_id, last'.condition) )
         => /\ last'.code = 200
            /\ Len(rows') = Len(rows) + 1
            /\ SubSeq(rows', 1, Len(rows)) = rows
            /\ rows'[Len(rows')].participant_name = last'.user_id
            /\ rows'[Len(rows')].filter_condition = last'.condition
            /\ rows'[Len(rows')].status = "in_progress"
    ]_vars

\* A pre submission has just started a second record after a completed one
\* that holds scores.
C2_Witness ==
  /\ last.op = "save_vas" /\ last.phase = "pre" /\ last.body = "Created new record"
  /\ Len(rows) = 2
  /\ rows[1].status = "completed"
  /\ rows[1].filter_condition = "weak" /\ rows[2].filter_condition = "weak"
  /\ rows[1].vas["vas_pre"] # NULL
  /\ rows[2].status = "in_progress"

\* C3: a served save_vas request with a phase other than pre, for a pair
\* that has no record or whose newest record is completed, answers 400 with a
\* sequence error and leaves the table unchanged.
C3_OutOfSequenceRejected ==
  [][ ( /\ ServedSaveVas(last', rows)
        /\ last'.phase # "pre"
        /\ \/ ~HasRecord(rows, last'.user_id, last'.condition)
           \/ NewestCompleted(rows, last'.user_id, last'.condition) )
      => /\ rows' = rows
         /\ last'.code = 400
         /\ last'.body = IF HasRecord(rows, last'.user_id, last'.condition)
                         THEN "Previous experiment is completed"
                         ELSE "No existing record found"
    ]_vars

\* A 10-15 submission was just refused on a record that a 10-15 submission
\* had completed.
C3_Witness ==
  /\ last.op = "save_vas" /\ last.phase = "10-15" /\ last.code = 400
  /\ last.body = "Previous experiment is completed"
  /\ Len(rows) = 1
  /\ rows[1].status = "completed"
  /\ rows[1].vas[FieldOf(rows, "10-15")] # NULL

\* C4: save_vas rejects, without changing the table, every (state, phase)
\* combination for which the state machine summary defines no transition:
\* a phase other than pre with no record or with a completed newest record,
\* and pre with a newest record that is in progress.
C4_UndefinedTransitionRejected ==
  [][ ( /\ ServedSaveVas(last', rows)
        /\ \/ last'.phase # "pre" /\ ~HasRecord(rows, last'.user_id, last'.condition)
           \/ last'.phase # "pre" /\ NewestCompleted(rows, last'.user_id, last'.condition)
           \/ last'.phase = "pre" /\ NewestOpen(rows, last'.user_id, last'.condition) )
      => (rows' = rows /\ last'.code = 400)
    ]_vars

\* C5 as stated: a served pre submission for a pair with no record appends
\* one in_progress record holding the submitted score in the resolved pre
\* field and nothing in the other fields, and reports that field and the
\* submitted value.
C5_CreatesRecordWithSubmittedValue ==
  [][ ( /\ ServedSaveVas(last', rows)
        /\ last'.phase = "pre"
        /\ ~HasRecord(rows, last'.user_id, last'.condition) )
      => /\ last'.code = 200
         /\ Len(rows') = Len(rows) + 1
         /\ SubSeq(rows', 1, Len(rows)) = rows
         /\ rows'[Len(rows')].participant_name = last'.user_id
         /\ rows'[Len(rows')].filter_condition = last'.condition
         /\ rows'[Len(rows')].status = "in_progress"
         /\ \A col \in columns :
              IF col = FieldOf(rows, "pre")
              THEN 10 * rows'[Len(rows')].vas[col] = last'.vas_score
              ELSE rows'[Len(rows')].vas[col] = NULL
         /\ last'.column = FieldOf(rows, "pre")
         /\ 10 * last'.value = last'.vas_score
    ]_vars

\* C5 as amended: the stored and reported value is the integer part of the
\* submitted score.
C5_CreatesRecordWithIntegerPart ==
  [][ ( /\ ServedSaveVas(last', rows)
        /\ last'.phase = "pre"
        /\ ~HasRecord(rows, last'.user_id, last'.condition) )
      => /\ last'.code = 200
         /\ Len(rows') = Len(rows) + 1
         /\ SubSeq(rows', 1, Len(rows)) = rows
         /\ rows'[Len(rows')].participant_name = last'.user_id
         /\ rows'[Len(rows')].filter_condition = last'.condition
         /\ rows'[Len(rows')].status = "in_progress"
         /\ \A col \in columns :
              IF col = FieldOf(rows, "pre")
              THEN /\ 10 * rows'[Len(rows')].vas[col] <= last'.vas_score
                   /\ last'.vas_score < 10 * (rows'[Len(rows')].vas[col] + 1)
              ELSE rows'[Len(rows')].vas[col] = NULL
         /\ last'.column = FieldOf(rows, "pre")
         /\ last'.column = "vas_pre"
         /\ last'.value = rows'[Len(rows')].vas[last'.column]
    ]_vars

\* A pre submission of 3.7 has just created the first record of its pair,
\* next to a record of another pair.
C5_Witness ==
  /\ last.op = "save_vas" /\ last.phase = "pre" /\ last.vas_score = 37
  /\ last.body = "Created new record"
  /\ Len(rows) = 2
  /\ rows[1].filter_condition = "mid"
  /\ rows[2].filter_condition = "weak" /\ rows[2].status = "in_progress"
  /\ rows[2].vas["vas_pre"] = 3

\* C6: a successful save_vas for a pair whose newest record is not completed
\* keeps the number of rows, writes the pair's newest record only, and in it
\* changes only the field the phase resolves to, and the status only for
\* phase 10-15.
C6_UpdateInPlace ==
  [][ ( /\ ServedSaveVas(last', rows)
        /\ last'.code = 200
        /\ NewestOpen(rows, last'.user_id, last'.condition) )
      => LET id == NewestId(rows, last'.user_id, last'.condition)
         IN  /\ Len(rows') = Len(rows)
             /\ \A i \in 1..Len(rows) : i # id => rows'[i] = rows[i]
             /\ rows'[id].participant_name = rows[id].participant_name
             /\ rows'[id].filter_condition = rows[id].filter_condition
             /\ \A col \in columns :
                  col # FieldOf(rows, last'.phase)
                    => rows'[id].vas[col] = rows[id].vas[col]
             /\ rows'[id].vas[FieldOf(rows, last'.phase)] = last'.value
             /\ rows'[id].status = IF last'.phase = "10-15"
                                   THEN "completed" ELSE rows[id].status
    ]_vars

\* A 5-10 score was just written into a record that already holds the
\* scores of pre and 0-5.
C6_Witness ==
  /\ last.op = "save_vas" /\ last.phase = "5-10" /\ last.body = "Updated record"
  /\ Len(rows) = 2
  /\ rows[2].filter_condition = "weak" /\ rows[2].status = "in_progress"
  /\ rows[2].vas["vas_pre"] # NULL
  /\ rows[2].vas[FieldOf(rows, "0-5")] # NULL
  /\ rows[2].vas[FieldOf(rows, "5-10")] = last.value

\* The phase before a phase in the order pre, warmup, 0-5, 5-10, 10-15.
PhaseBefore(phase) ==
  CASE phase = "warmup" -> "pre"
    [] phase = "0-5"    -> "warmup"
    [] phase = "5-10"   -> "0-5"
    [] phase = "10-15"  -> "5-10"

\* The value of the field of the phase before phase in the newest record of
\* the pair; NULL when the pair has no record or the table has no such field.
StoredBefore(tbl, user_id, condition, phase) ==
  IF ~HasRecord(tbl, user_id, condition) THEN NULL
  ELSE IF FieldOf(tbl, PhaseBefore(phase)) \notin columns THEN NULL
  ELSE tbl[NewestId(tbl, user_id, condition)].vas[FieldOf(tbl, PhaseBefore(phase))]

\* What get_previous_vas answers, for a valid pair against a configured store
\* whose calls succeed: absent for pre, else the stored value of the phase
\* before in the pair's newest record.
PreviousScoreAnswer ==
  (last.op = "get_previous_vas" /\ supabase /\ last.fails = {})
    => /\ last.code = 200
       /\ last.value = IF last.phase = "pre" THEN NULL
                       ELSE StoredBefore(rows, last.user_id, last.condition, last.phase)

\* C9 as stated: get_previous_vas answers as PreviousScoreAnswer says, and
\* right after a pre submission with score s has started a record,
\* get_previous_vas for warmup on that pair returns s.
C9_PreviousScoreIsSubmitted ==
  /\ []PreviousScoreAnswer
  /\ [][ ( /\ ServedSaveVas(last, rows)
            /\ last.phase = "pre" /\ last.body = "Created new record"
            /\ last'.op = "get_previous_vas" /\ last'.phase = "warmup"
            /\ last'.user_id = last.user_id /\ last'.condition = last.condition )
          => 10 * last'.value = last.vas_score
        ]_vars

\* C9 as amended: after a pre submission with score s, get_previous_vas for
\* warmup returns the integer part of s.
C9_PreviousScoreIsStored ==
  /\ []PreviousScoreAnswer
  /\ [][ ( /\ ServedSaveVas(last, rows)
            /\ last.phase = "pre" /\ last.body = "Created new record"
            /\ last'.op = "get_previous_vas" /\ last'.phase = "warmup"
            /\ last'.user_id = last.user_id /\ last'.condition = last.condition )
          => /\ 10 * last'.value <= last.vas_score
             /\ last.vas_score < 10 * (last'.value + 1)
        ]_vars

\* get_previous_vas for 5-10 has just returned the 0-5 score of the newer of
\* two records of the pair, the older one holding none.
C9_Witness ==
  /\ last.op = "get_previous_vas" /\ last.phase = "5-10" /\ last.condition = "weak"
  /\ last.value = 3
  /\ Len(rows) = 2
  /\ rows[1].filter_condition = "weak" /\ rows[2].filter_condition = "weak"
  /\ rows[1].vas[FieldOf(rows, "0-5")] = NULL
  /\ rows[2].vas[FieldOf(rows, "0-5")] = 3
  /\ rows[2].vas[FieldOf(rows, "5-10")] = NULL

\* C10: with the store reachable, login maps a condition to true exactly
\* when the participant has a completed record of that condition; so it
\* is true for a condition right after a successful 10-15 submission.
C10_ProgressIffCompleted ==
  /\ \A user_id \in {"p1", "p2"} :
       supabase =>
         Progress(supabase, rows, user_id, {}) =
           {c \in Conditions : \E i \in RecordsOf(rows, user_id, c) :
                                  rows[i].status = "completed"}
  /\ (last.op = "login" /\ supabase /\ last.fails = {})
       => /\ last.code = 200
          /\ last.progress =
               {c \in Conditions : \E i \in RecordsOf(rows, last.user_id, c) :
                                      rows[i].status = "completed"}
  /\ (last.op = "save_vas" /\ last.phase = "10-15" /\ last.code = 200)
       => last.condition \in Progress(supabase, rows, last.user_id, {})

\* A login of p2 reports weak only, while p1 has completed mid.
C10_Witness ==
  /\ last.op = "login" /\ last.user_id = "p2" /\ last.progress = {"weak"}
  /\ \E i \in 1..Len(rows) :
       /\ rows[i].participant_name = "p1" /\ rows[i].filter_condition = "mid"
       /\ rows[i].status = "completed"
  /\ \E i \in 1..Len(rows) :
       /\ rows[i].participant_name = "p2" /\ rows[i].filter_condition = "weak"
       /\ rows[i].vas["vas_pre"] # NULL

\* The records of the pair that are in_progress.
OpenRecords(tbl, user_id, condition) ==
  {i \in RecordsOf(tbl, user_id, condition) : tbl[i].status = "in_progress"}

\* C7: under any interleaving of the handlers' store calls, a record whose
\* 10-15 score field holds a value has status completed.
C7_TerminalScoreImpliesCompleted ==
  \A i \in 1..Len(rows) :
    rows[i].vas[FieldOf(rows, "10-15")] # NULL => rows[i].status = "completed"

\* A 10-15 score has been written while the other handler is between its
\* locate query and its write on the same record.
C7_Witness ==
  \E w \in Workers, i \in 1..Len(rows) :
    /\ rows[i].vas[FieldOf(rows, "10-15")] # NULL
    /\ rows[i].status = "completed"
    /\ workers[w].pc = "located"
    /\ workers[w].op = "save_vas"
    /\ workers[w].existing # <<>>
    /\ workers[w].existing[1].id = i

\* Handler w finishes its write in this step.
Stores(w) ==
  /\ workers[w].pc = "located"
  /\ workers[w].op = "save_vas"
  /\ workers'[w].pc = "done"

\* C8: the write acts on what the handler's locate query returned, whatever
\* the other handler has written since.  A handler that located no record
\* adds an in_progress row of the pair even when the pair has one by now, and
\* a handler that located an in_progress record replaces the value of its
\* field in that record, whatever value the field holds by now.
C8_WriteActsOnLocatedRecord ==
  [][\A w \in Workers :
       /\ (Stores(w) /\ workers[w].existing = <<>>) =>
             /\ Len(rows') = Len(rows) + 1
             /\ rows'[Len(rows')].participant_name = workers[w].user_id
             /\ rows'[Len(rows')].filter_condition = workers[w].condition
             /\ rows'[Len(rows')].status = "in_progress"
             /\ \A i \in 1..Len(rows) : rows'[i] = rows[i]
             /\ workers'[w].body = "Created new record"
       /\ (/\ Stores(w)
           /\ workers[w].existing # <<>>
           /\ workers[w].existing[1].status # "completed"
           /\ workers[w].column_name \in columns) =>
             /\ Len(rows') = Len(rows)
             /\ rows'[workers[w].existing[1].id].vas[workers[w].column_name]
                  = PyInt(workers[w].vas_score)
             /\ workers'[w].body = "Updated record"]_vars

\* The pair has two in_progress rows, one handler has updated a field of the
\* newer one, and the other handler, which located that record too, is about
\* to write another value into the same field.
C8_Witness ==
  \E w \in Workers, v \in Workers :
    /\ w # v
    /\ Cardinality(OpenRecords(rows, "p1", "weak")) >= 2
    /\ workers[w].pc = "done"
    /\ workers[w].op = "save_vas"
    /\ workers[w].body = "Updated record"
    /\ workers[v].pc = "located"
    /\ workers[v].op = "save_vas"
    /\ workers[v].existing # <<>>
    /\ workers[v].existing = workers[w].existing
    /\ workers[v].column_name = workers[w].column_name
    /\ workers[v].column_name \in columns
    /\ PyInt(workers[v].vas_score) # workers[w].value
    /\ rows[workers[w].existing[1].id].vas[workers[w].column_name] = workers[w].value

\* The request of a step is a complete request with a participant and a valid
\* condition, against a configured store whose calls succeed.
ServedComplete(req) ==
  /\ req.op = "complete"
  /\ req.user_id # "" /\ req.condition \in Conditions
  /\ supabase /\ req.fails = {}

\* C11: a served complete answers ok; it sets the status of the pair's newest
\* record to completed when that record is not completed, appends one
\* completed record without scores when the pair has no record, and leaves
\* the table as it is when the newest record is completed.  Afterwards the
\* pair's newest record is completed and no score of any record has changed.
C11_CompleteMarksLatest ==
  [][ ServedComplete(last') =>
        LET u == last'.user_id
            c == last'.condition
        IN  /\ last'.code = 200
            /\ NewestOpen(rows, u, c) =>
                  rows' = [rows EXCEPT ![NewestId(rows, u, c)].status = "completed"]
            /\ ~HasRecord(rows, u, c) =>
                  /\ Len(rows') = Len(rows) + 1
                  /\ SubSeq(rows', 1, Len(rows)) = rows
                  /\ rows'[Len(rows')].participant_name = u
                  /\ rows'[Len(rows')].filter_condition = c
                  /\ rows'[Len(rows')].status = "completed"
                  /\ \A col \in columns : rows'[Len(rows')].vas[col] = NULL
            /\ NewestCompleted(rows, u, c) => rows' = rows
            /\ NewestCompleted(rows', u, c)
            /\ \A i \in 1..Len(rows) : rows'[i].vas = rows[i].vas
    ]_vars

\* complete has just closed a record that holds a pre score and no 10-15
\* score, next to a record of another pair.
C11_Witness ==
  /\ last.op = "complete" /\ last.code = 200 /\ last.body = "Updated record"
  /\ last.condition = "weak"
  /\ Len(rows) = 2
  /\ \E i \in 1..2 :
       /\ rows[i].filter_condition = "weak"
       /\ rows[i].status = "completed"
       /\ rows[i].vas["vas_pre"] # NULL
       /\ rows[i].vas[FieldOf(rows, "10-15")] = NULL
       /\ rows[3 - i].filter_condition = "mid"

\* The alternate spellings of a phase's column, in the order they are tried.
Alternates(phase) ==
  CASE phase = "pre"    -> <<>>
    [] phase = "warmup" -> <<"vas_war">>
    [] phase = "0-5"    -> <<"vas_phase_0_5", "vas_pha1">>
    [] phase = "5-10"   -> <<"vas_phase_5_10", "vas_pha2">>
    [] phase = "10-15"  -> <<"vas_phase_10_15", "vas_pha3">>

\* name is what the phase resolves to against the field names live: the
\* canonical name if live has it, otherwise the first alternate live has,
\* otherwise the canonical name.
ResolvesTo(phase, live, name) ==
  IF DefaultColumn(phase) \in live THEN name = DefaultColumn(phase)
  ELSE IF \E i \in 1..Len(Alternates(phase)) : Alternates(phase)[i] \in live
  THEN \E i \in 1..Len(Alternates(phase)) :
         /\ name = Alternates(phase)[i]
         /\ name \in live
         /\ \A j \in 1..(i - 1) : Alternates(phase)[j] \notin live
  ELSE name = DefaultColumn(phase)

\* C12: every call of get_phase_to_column_mapping returns a map on the five
\* phases, determined by the field names of the live row at that call: those
\* of the table when the store is configured, the probe succeeds and a row
\* exists, and none otherwise, which gives the canonical default map.
C12_ResolverFirstPresent ==
  [][ resolved' # resolved =>
        LET m    == resolved'.phase_to_column
            live == IF supabase /\ ~resolved'.probeFails /\ Len(rows) > 0
                    THEN columns ELSE {}
        IN  /\ DOMAIN m = ValidPhases
            /\ \A ph \in ValidPhases : ResolvesTo(ph, live, m[ph])
            /\ live = {} => m = [ph \in ValidPhases |-> DefaultColumn(ph)]
    ]_vars

\* The resolver was called on a table with a row where 0-5 has only its
\* second alternate, 5-10 has both alternates, and warmup has no column.
C12_Witness ==
  /\ resolved.called /\ ~resolved.probeFails /\ supabase /\ Len(rows) > 0
  /\ columns \cap {"vas_phase1", "vas_phase_0_5", "vas_pha1"} = {"vas_pha1"}
  /\ columns \cap {"vas_phase2", "vas_phase_5_10", "vas_pha2"} = {"vas_phase_5_10", "vas_pha2"}
  /\ columns \cap {"vas_warmup", "vas_war"} = {}
  /\ resolved.phase_to_column["0-5"] = "vas_pha1"
  /\ resolved.phase_to_column["5-10"] = "vas_phase_5_10"
  /\ resolved.phase_to_column["warmup"] = "vas_warmup"

\* C13: a save_vas request whose condition or phase is not a valid one, or
\* that has no score, answers 400 with the validation message and leaves the
\* table unchanged, whether or not the store is configured and whichever of
\* its calls would raise.
C13_ValidationBeforeStore ==
  [][ ( /\ last'.op = "save_vas"
        /\ last'.user_id # ""
        /\ \/ last'.condition \notin Conditions
           \/ last'.phase \notin ValidPhases
           \/ last'.vas_score = NULL )
      => /\ last'.code = 400
         /\ rows' = rows
         /\ last'.body = IF last'.condition \notin Conditions THEN "Invalid data"
                         ELSE IF last'.phase \notin ValidPhases THEN "Invalid phase"
                         ELSE "vas_score is required"
    ]_vars

\* A request without a score was refused with 400 by a process that has no
\* store client.
C13_Witness ==
  /\ ~supabase
  /\ last.op = "save_vas" /\ last.code = 400
  /\ last.condition \in Conditions /\ last.phase \in ValidPhases
  /\ last.vas_score = NULL
  /\ last.fails = StoreCalls

\* The request of a step is a save_vas or complete request with valid input
\* against a store that is not configured or whose every call raises.
WriteWithoutStore(req) ==
  /\ req.op \in {"save_vas", "complete"}
  /\ req.user_id # "" /\ req.condition \in Conditions
  /\ req.op = "save_vas" => (req.phase \in ValidPhases /\ req.vas_score \notin {NULL, Unparsable})
  /\ (~supabase \/ req.fails = StoreCalls)

\* C14: a save_vas or complete request with valid input against a store that
\* is not configured or not reachable answers 500, never success and never a
\* sequence or column-not-found outcome.
C14_WriteReportsUnavailable ==
  [][ WriteWithoutStore(last') =>
        /\ last'.code = 500
        /\ last'.body \notin {"Previous experiment is completed",
                              "No existing record found", "Column not found"}
    ]_vars

\* The request of a step is a get_previous_vas or login request that passes
\* validation.
ServedRead(req) ==
  \/ req.op = "get_previous_vas" /\ req.user_id # "" /\ req.condition \in Conditions
  \/ req.op = "login" /\ req.user_id # ""

\* The store calls a read operation makes.
CallsOf(op) == IF op = "login" THEN {"locate"} ELSE {"probe", "locate"}

\* C15 as stated: get_previous_vas and login never change the table and
\* answer 200; when the store is not configured or any store call of the
\* request raises, previous_score is null and progress is all false.
C15_ReadsDegradeOnAnyFailure ==
  [][ ServedRead(last') =>
        /\ rows' = rows
        /\ last'.code = 200
        /\ (~supabase \/ last'.fails \cap CallsOf(last'.op) # {}) =>
              (last'.value = NULL /\ last'.progress = {})
    ]_vars

\* C15 as amended: the answer is the default when the store is not
\* configured or the record query raises.  When only the schema probe
\* raises, get_previous_vas reads the canonical default column of the
\* previous phase from the pair's newest record.
C15_ReadsDegradeOnQueryFailure ==
  [][ ServedRead(last') =>
        /\ rows' = rows
        /\ last'.code = 200
        /\ (~supabase \/ "locate" \in last'.fails) =>
              (last'.value = NULL /\ last'.progress = {})
        /\ ( /\ last'.op = "get_previous_vas"
             /\ supabase
             /\ "probe" \in last'.fails /\ "locate" \notin last'.fails
             /\ last'.phase \in ValidPhases \ {"pre"} ) =>
              LET col == DefaultColumn(PhaseBefore(last'.phase))
              IN  last'.value =
                    IF HasRecord(rows, last'.user_id, last'.condition) /\ col \in columns
                    THEN rows[NewestId(rows, last'.user_id, last'.condition)].vas[col]
                    ELSE NULL
    ]_vars

\* Every store call of a get_previous_vas request for warmup raised, the
\* pair's newest record holds a pre score, and the answer is 200 with null.
C15_Witness ==
  /\ supabase
  /\ last.op = "get_previous_vas" /\ last.phase = "warmup"
  /\ last.fails = StoreCalls
  /\ last.code = 200 /\ last.value = NULL
  /\ HasRecord(rows, "p1", "weak")
  /\ rows[NewestId(rows, "p1", "weak")].vas["vas_pre"] # NULL

\* C20: save_vas accepts a score for a phase other than pre only if the
\* pair's newest record is open and already holds a score in the field of
\* the phase immediately before it.
C20_StrictPhaseProgression ==
  [][ ( /\ ServedSaveVas(last', rows)
        /\ last'.phase # "pre"
        /\ last'.code = 200 )
      => /\ NewestOpen(rows, last'.user_id, last'.condition)
         /\ FieldOf(rows, PhaseBefore(last'.phase)) \in columns
         /\ rows[NewestId(rows, last'.user_id, last'.condition)]
              .vas[FieldOf(rows, PhaseBefore(last'.phase))] # NULL
    ]_vars

\* A timeline request was answered after get_posts was called.
Answered == reply.code = 200

\* What the source table of (condition, phase) gives once loaded: its two
\* texts in file order, or nothing when the file is not found.
LoadedWindow(condition, phase) ==
  IF files[condition][phase].exists
  THEN <<[text |-> condition], [text |-> phase]>>
  ELSE <<>>

\* C16: for a condition of {weak, mid, strong} and a window phase, get_posts
\* returns the sequence loaded from the table of that condition and window,
\* in file order, whatever requests were served before; the source tables
\* never change.
C16_WindowPostsAreLoadedSequence ==
  /\ [](( /\ Answered
          /\ reply.condition \in Conditions
          /\ reply.phase \in Windows )
        => reply.posts = LoadedWindow(reply.condition, reply.phase))
  /\ [][files' = files]_vars

\* The weak 10-15 window was served with its two posts by a process in which
\* both handlers built a manager.
C16_Witness ==
  /\ Answered /\ reply.condition = "weak" /\ reply.phase = "10-15"
  /\ reply.posts = <<[text |-> "weak"], [text |-> "10-15"]>>
  /\ ~files["weak"]["5-10"].exists
  /\ builds = 2

\* posts is a selection of k distinct positions of pool.
IsSampleOf(posts, pool, k) ==
  /\ Len(posts) = k
  /\ \E idx \in [1..k -> 1..Len(pool)] :
       /\ \A i, j \in 1..k : idx[i] = idx[j] => i = j
       /\ \A i \in 1..k : posts[i] = pool[idx[i]]

\* C17: for phase warmup and any condition, what get_posts returns is a
\* selection of distinct positions of the warm-up pool, of size the smaller
\* of the pool size and the sample limit; the results possible are the same
\* for every condition; an empty pool gives the empty sequence.
C17_WarmupIsSampleOfPool ==
  LET pool == manager.data_store["warmup"]
  IN  /\ (Answered /\ reply.phase = "warmup") =>
            /\ IsSampleOf(reply.posts, pool, Min(SampleLimit, Len(pool)))
            /\ pool = <<>> => reply.posts = <<>>
      /\ \A condition \in ReqConditions :
            get_posts(manager.data_store, condition, "warmup")
              = get_posts(manager.data_store, "weak", "warmup")

\* A warm-up request without a condition got a sample smaller than the pool
\* that holds the same text at two positions.
C17_Witness ==
  /\ Answered /\ reply.phase = "warmup" /\ reply.condition = ""
  /\ Len(manager.data_store["warmup"]) > SampleLimit
  /\ Len(reply.posts) = SampleLimit
  /\ reply.posts[1] = reply.posts[2]

\* C18 as stated: a request with a condition outside {weak, mid, strong} or a
\* phase outside {warmup, 0-5, 5-10, 10-15} is answered without an error and
\* get_posts returned the empty sequence; a warm-up request on an empty pool
\* is answered with an empty timeline.
C18_UnknownArgumentsGiveEmpty ==
  /\ ( /\ reply.code # 0 /\ reply.phase # ""
       /\ \/ reply.condition \notin Conditions
          \/ reply.phase \notin Windows \cup {"warmup"} )
     => (reply.code = 200 /\ reply.posts = <<>>)
  /\ ( /\ reply.code # 0 /\ reply.phase = "warmup"
       /\ manager.data_store["warmup"] = <<>> )
     => (reply.code = 200 /\ reply.timeline = <<>>)

\* C18 as amended: the empty sequence is returned for a phase outside
\* {warmup, 0-5, 5-10, 10-15}, and for a condition outside {weak, mid,
\* strong} when the phase is not warmup.
C18_UnknownWindowArgumentsGiveEmpty ==
  /\ ( /\ reply.code # 0 /\ reply.phase # ""
       /\ \/ reply.phase \notin Windows \cup {"warmup"}
          \/ reply.condition \notin Conditions /\ reply.phase # "warmup" )
     => (reply.code = 200 /\ reply.posts = <<>> /\ reply.timeline = <<>>)
  /\ ( /\ reply.code # 0 /\ reply.phase = "warmup"
       /\ manager.data_store["warmup"] = <<>> )
     => (reply.code = 200 /\ reply.timeline = <<>>)

\* The condition 'warmup' with a window phase got the empty sequence from a
\* manager whose warm-up pool and windows hold posts.
C18_Witness ==
  /\ Answered /\ reply.condition = "warmup" /\ reply.phase = "0-5"
  /\ reply.posts = <<>> /\ reply.timeline = <<>>
  /\ manager.data_store["warmup"] # <<>>
  /\ manager.data_store["weak"]["0-5"] # <<>>

\* C19: TimelineManager() is constructed at most once, and once the manager
\* is built its data_store has the keys warmup, weak, mid, strong, each
\* condition has the three windows, every sequence is what its source table
\* loads to, and no step changes it.
C19_CatalogBuiltOnce ==
  /\ [](/\ builds <= 1
        /\ manager.built =>
             /\ DOMAIN manager.data_store = {"warmup", "weak", "mid", "strong"}
             /\ \A c \in Conditions :
                  /\ DOMAIN manager.data_store[c] = Windows
                  /\ \A ph \in Windows :
                       manager.data_store[c][ph] = LoadedWindow(c, ph))
  /\ [][manager.built => manager' = manager]_vars

\* C21: a save_vas request that passes validation against a configured store
\* whose calls succeed.  When the table has a row and the column the phase
\* resolves to is not one of its columns, the answer is 400 naming the
\* columns available and the table is unchanged.  When the table has no row
\* the check is not made: the default name is used, and the request goes on
\* to the locate step.
C21_MissingColumnRefused ==
  [][ ( /\ last'.op = "save_vas"
        /\ last'.user_id # "" /\ last'.condition \in Conditions
        /\ last'.phase \in ValidPhases /\ last'.vas_score # NULL
        /\ supabase /\ last'.fails = {} )
      => /\ (Len(rows) > 0 /\ FieldOf(rows, last'.phase) \notin columns) =>
               /\ last'.code = 400
               /\ last'.body = "Column not found"
               /\ last'.column = FieldOf(rows, last'.phase)
               /\ last'.available_columns = columns
               /\ rows' = rows
         /\ (Len(rows) > 0 /\ FieldOf(rows, last'.phase) \in columns) =>
               last'.body # "Column not found"
         /\ Len(rows) = 0 =>
               /\ last'.body # "Column not found"
               /\ last'.phase # "pre" =>
                     (last'.code = 400 /\ last'.body = "No existing record found")
               /\ (last'.phase = "pre" /\ last'.vas_score # Unparsable) =>
                     (last'.code = 200 /\ last'.column = DefaultColumn("pre"))
    ]_vars

\* A warmup score was refused on a table that has a row and no warm-up
\* column, with the five columns it has named in the answer.
C21_Witness ==
  /\ last.op = "save_vas" /\ last.phase = "warmup"
  /\ last.code = 400 /\ last.body = "Column not found"
  /\ last.column = "vas_warmup"
  /\ last.available_columns = AlternateSchema
  /\ Len(rows) = 1
  /\ rows[1].status = "in_progress"

\* C22: when a concurrent save_vas handler writes a score into the record it
\* located, that record is not completed at the moment of the write.
C22_NoWriteToCompletedRecord ==
  [][ \A w \in Workers :
        ( /\ Stores(w)
          /\ workers[w].existing # <<>>
          /\ workers'[w].body = "Updated record" )
        => rows[workers[w].existing[1].id].status # "completed"
    ]_vars

\* C23: a save_vas or complete step for the pair (p, c), whatever its answer,
\* leaves every record of another pair as it was and adds records of (p, c)
\* only; what login and get_previous_vas compute for any other pair is the
\* same on the table after the step as on the table before it.
C23_OtherPairsUntouched ==
  [][ last'.op \in {"save_vas", "complete"} =>
        LET p == last'.user_id
            c == last'.condition
        IN  /\ Len(rows') >= Len(rows)
            /\ \A i \in 1..Len(rows) :
                 (rows[i].participant_name # p \/ rows[i].filter_condition # c)
                   => rows'[i] = rows[i]
            /\ \A i \in (Len(rows) + 1)..Len(rows') :
                 rows'[i].participant_name = p /\ rows'[i].filter_condition = c
            /\ \/ rows' = rows
               \/ \A q \in {"p1", "p2"}, d \in Conditions :
                 (q # p \/ d # c) =>
                   /\ (d \in Progress(supabase, rows', q, {}))
                        = (d \in Progress(supabase, rows, q, {}))
                   /\ \A ph \in ValidPhases :
                        PreviousScore(supabase, rows', columns, q, d, ph, {})
                          = PreviousScore(supabase, rows, columns, q, d, ph, {})
    ]_vars

\* A 10-15 submission has just completed the record of (p1, weak) next to a
\* completed record of (p2, weak) that holds scores.
C23_Witness ==
  /\ last.op = "save_vas" /\ last.code = 200 /\ last.phase = "10-15"
  /\ last.user_id = "p1" /\ last.condition = "weak"
  /\ Len(rows) = 2
  /\ \E i \in 1..2 :
       /\ rows[i].participant_name = "p2" /\ rows[i].filter_condition = "weak"
       /\ rows[i].status = "completed" /\ rows[i].vas["vas_pre"] # NULL
       /\ rows[3 - i].participant_name = "p1" /\ rows[3 - i].status = "completed"

\* C24: every record whose status is in_progress holds a score in the
\* column the pre phase resolves to.
C24_OpenRecordsHoldPreScore ==
  \A i \in 1..Len(rows) :
    rows[i].status = "in_progress" =>
      /\ FieldOf(rows, "pre") \in columns
      /\ rows[i].vas[FieldOf(rows, "pre")] # NULL

\* An in_progress record started after an earlier record of the pair was
\* completed, with a later phase already written into it.
C24_Witness ==
  /\ last.op = "save_vas" /\ last.code = 200 /\ last.phase = "0-5"
  /\ Len(rows) = 2
  /\ rows[1].status = "completed"
  /\ rows[2].status = "in_progress"
  /\ rows[2].vas[FieldOf(rows, "pre")] # NULL
  /\ rows[2].vas[FieldOf(rows, "0-5")] # NULL

\* C25: in every step of concurrently running handlers no record disappears
\* or changes its pair, a completed record stays completed, and every
\* condition login reports as completed is still reported after the step.
C25_StatusMonotone ==
  [][ /\ Len(rows') >= Len(rows)
      /\ \A i \in 1..Len(rows) :
           /\ rows'[i].participant_name = rows[i].participant_name
           /\ rows'[i].filter_condition = rows[i].filter_condition
           /\ rows[i].status = "completed" => rows'[i].status = "completed"
      /\ supabase =>
           Progress(supabase, rows, "p1", {}) \subseteq Progress(supabase, rows', "p1", {})
    ]_vars

\* A handler has written a warm-up score into record 1, a second session
\* of the pair is open, and record 1 is completed and reported by login.
C25_Witness ==
  /\ supabase
  /\ Len(rows) = 2
  /\ rows[1].status = "completed"
  /\ rows[2].status = "in_progress"
  /\ "weak" \in Progress(supabase, rows, "p1", {})
  /\ \E w \in Workers :
       /\ workers[w].pc = "done" /\ workers[w].op = "save_vas"
       /\ workers[w].phase = "warmup" /\ workers[w].code = 200
       /\ workers[w].existing # <<>>
       /\ workers[w].existing[1].id = 1

====
